---------------------------- MODULE Spec2Model ----------------------------
(***************************************************************************)
(* Mamdani fuzzy irrigation controller (Javier-Espana/PRY4-LM).            *)
(*                                                                         *)
(* The program builds one scikit-fuzzy ControlSystemSimulation from three  *)
(* antecedents (soil_moisture, temperature, solar_radiation), one          *)
(* consequent (irrigation_duration) and twelve rules, and drives it from a *)
(* menu: single simulations, batches that are logged, and 3D surface       *)
(* sweeps.  The simulation object keeps the assigned inputs, the last      *)
(* output and a cache of computed input triples between calls.             *)
(*                                                                         *)
(* Numbers are exact rationals <<n, d>> (d > 0, gcd(n, d) = 1) where the   *)
(* program uses floats: membership degrees, firing strengths, the sample   *)
(* points of the output universe and the centroid.                         *)
(***************************************************************************)
EXTENDS Integers, Sequences, FiniteSets, TLC

\* Python None, where a number (a rational <<n, d>>) is expected
None == <<>>

---------------------------------------------------------------------------
(* Exact rational arithmetic standing for the float arithmetic.            *)

Abs(n) == IF n < 0 THEN -n ELSE n

RECURSIVE GCD(_, _)
GCD(a, b) == IF b = 0 THEN a ELSE GCD(b, a % b)

LCM(a, b) == (a \div GCD(a, b)) * b

Rat(n, d) ==
    LET g == GCD(Abs(n), d)
    IN  IF n = 0 THEN <<0, 1>> ELSE <<n \div g, d \div g>>

Zero == <<0, 1>>
One == <<1, 1>>
IntR(k) == <<k, 1>>

RLeq(p, q) == p[1] * q[2] <= q[1] * p[2]
RLt(p, q) == p[1] * q[2] < q[1] * p[2]

RAdd(p, q) ==
    LET l == LCM(p[2], q[2])
    IN  Rat(p[1] * (l \div p[2]) + q[1] * (l \div q[2]), l)

RNeg(p) == <<-p[1], p[2]>>
RSub(p, q) == RAdd(p, RNeg(q))

RMul(p, q) ==
    LET g1 == GCD(Abs(p[1]), q[2])
        g2 == GCD(Abs(q[1]), p[2])
    IN  IF p[1] = 0 \/ q[1] = 0 THEN Zero
        ELSE <<(p[1] \div g1) * (q[1] \div g2), (p[2] \div g2) * (q[2] \div g1)>>

RInv(p) == IF p[1] < 0 THEN <<-p[2], -p[1]>> ELSE <<p[2], p[1]>>
RDiv(p, q) == RMul(p, RInv(q))

\* numpy.fmin / numpy.fmax on two scalars
fmin(p, q) == IF RLeq(p, q) THEN p ELSE q
fmax(p, q) == IF RLeq(p, q) THEN q ELSE p

---------------------------------------------------------------------------
(* Universes, membership functions and rules: the configuration.           *)

VarNames == {"soil_moisture", "temperature", "solar_radiation"}
OutName == "irrigation_duration"

\* universes with solar_radiation sampled every 100 W/m2
define_universes_Coarse ==
    [soil_moisture       |-> [lo |-> 0, hi |-> 100,  step |-> 1],
     temperature         |-> [lo |-> 0, hi |-> 40,   step |-> 1],
     solar_radiation     |-> [lo |-> 0, hi |-> 1000, step |-> 100],
     irrigation_duration |-> [lo |-> 0, hi |-> 30,   step |-> 1]]

\* numpy.arange(lo, hi + 1, step) of each variable
define_universes ==
    [soil_moisture       |-> [lo |-> 0, hi |-> 100,  step |-> 1],
     temperature         |-> [lo |-> 0, hi |-> 40,   step |-> 1],
     solar_radiation     |-> [lo |-> 0, hi |-> 1000, step |-> 10],
     irrigation_duration |-> [lo |-> 0, hi |-> 30,   step |-> 1]]

\* ctrl.Antecedent / ctrl.Consequent: the role each variable is created with
variable_roles ==
    [soil_moisture       |-> "Antecedent",
     temperature         |-> "Antecedent",
     solar_radiation     |-> "Antecedent",
     irrigation_duration |-> "Consequent"]

\* a triangle whose two slopes are not divided by the width of the side
trimf_Unscaled(x, a, b, c) ==
    IF x = b THEN One
    ELSE IF b # c /\ b < x /\ x < c THEN IntR(c - x)
    ELSE IF a # b /\ a < x /\ x < b THEN IntR(x - a)
    ELSE Zero

\* a triangle without the last assignment of trimf, y[x == b] = 1
trimf_NoPeak(x, a, b, c) ==
    IF b # c /\ b < x /\ x < c THEN Rat(c - x, c - b)
    ELSE IF a # b /\ a < x /\ x < b THEN Rat(x - a, b - a)
    ELSE Zero

\* skfuzzy.trimf at one point x of the universe (x an integer)
trimf(x, a, b, c) ==
    IF x = b THEN One
    ELSE IF b # c /\ b < x /\ x < c THEN Rat(c - x, c - b)
    ELSE IF a # b /\ a < x /\ x < b THEN Rat(x - a, b - a)
    ELSE Zero

\* a trapezoid whose falling side starts at b instead of c
trapmf_FallFromB(x, a, b, c, d) ==
    IF x > d THEN Zero
    ELSE IF x < a THEN Zero
    ELSE IF x >= c THEN trimf(x, b, b, d)
    ELSE IF x <= b THEN trimf(x, a, b, b)
    ELSE One

\* a trapezoid that is zero at its two outer points as well as beyond them
trapmf_ZeroAtEnds(x, a, b, c, d) ==
    IF x >= d THEN Zero
    ELSE IF x <= a THEN Zero
    ELSE IF x >= c THEN trimf(x, c, c, d)
    ELSE IF x <= b THEN trimf(x, a, b, b)
    ELSE One

\* skfuzzy.trapmf at one point x of the universe (x an integer)
trapmf(x, a, b, c, d) ==
    IF x > d THEN Zero
    ELSE IF x < a THEN Zero
    ELSE IF x >= c THEN trimf(x, c, c, d)
    ELSE IF x <= b THEN trimf(x, a, b, b)
    ELSE One

\* the terms of every variable, with the shape and control points given
define_memberships ==
    [soil_moisture |->
        [muy_seca |-> <<0, 0, 10, 20>>,
         seca     |-> <<10, 30, 50>>,
         normal   |-> <<40, 60, 80>>,
         humeda   |-> <<70, 85, 100, 100>>],
     temperature |->
        [frio     |-> <<0, 0, 10, 15>>,
         templado |-> <<10, 22, 30>>,
         caliente |-> <<25, 32, 40, 40>>],
     solar_radiation |->
        [baja  |-> <<0, 0, 200, 350>>,
         media |-> <<250, 500, 750>>,
         alta  |-> <<650, 800, 1000, 1000>>],
     irrigation_duration |->
        [muy_corta |-> <<0, 0, 3, 6>>,
         corta     |-> <<4, 8, 12>>,
         media     |-> <<10, 17, 24>>,
         larga     |-> <<20, 25, 30, 30>>]]

Terms(v) == DOMAIN define_memberships[v]

\* the assignments variable[term] = ... of define_memberships, in the order
\* they are made: an assignment to a name used before would replace the term
term_assignments ==
    << <<"soil_moisture", "muy_seca">>, <<"soil_moisture", "seca">>,
       <<"soil_moisture", "normal">>, <<"soil_moisture", "humeda">>,
       <<"temperature", "frio">>, <<"temperature", "templado">>,
       <<"temperature", "caliente">>,
       <<"solar_radiation", "baja">>, <<"solar_radiation", "media">>,
       <<"solar_radiation", "alta">>,
       <<"irrigation_duration", "muy_corta">>, <<"irrigation_duration", "corta">>,
       <<"irrigation_duration", "media">>, <<"irrigation_duration", "larga">> >>

\* term.mf[i]: the sampled membership array of a term at grid point x
mf(v, term, x) ==
    LET p == define_memberships[v][term]
    IN  IF Len(p) = 3 THEN trimf(x, p[1], p[2], p[3])
        ELSE trapmf(x, p[1], p[2], p[3], p[4])

Leaf(v, t) == [var |-> v, term |-> t]

\* the rules with the second leaf of R5 written temp['alta']: a term of
\* solar_radiation taken from temperature
define_rules_TermOfOtherVariable ==
    << [label |-> "R1", cvar |-> OutName, cons |-> "larga",
        ants |-> <<Leaf("soil_moisture", "muy_seca"), Leaf("temperature", "caliente"),
                   Leaf("solar_radiation", "alta")>>],
       [label |-> "R2", cvar |-> OutName, cons |-> "larga",
        ants |-> <<Leaf("soil_moisture", "muy_seca"), Leaf("temperature", "caliente"),
                   Leaf("solar_radiation", "media")>>],
       [label |-> "R3", cvar |-> OutName, cons |-> "larga",
        ants |-> <<Leaf("soil_moisture", "muy_seca"), Leaf("temperature", "templado")>>],
       [label |-> "R4", cvar |-> OutName, cons |-> "media",
        ants |-> <<Leaf("soil_moisture", "seca"), Leaf("temperature", "caliente")>>],
       [label |-> "R5", cvar |-> OutName, cons |-> "media",
        ants |-> <<Leaf("soil_moisture", "seca"), Leaf("temperature", "alta")>>],
       [label |-> "R6", cvar |-> OutName, cons |-> "media",
        ants |-> <<Leaf("soil_moisture", "normal"), Leaf("temperature", "caliente"),
                   Leaf("solar_radiation", "alta")>>],
       [label |-> "R7", cvar |-> OutName, cons |-> "corta",
        ants |-> <<Leaf("soil_moisture", "normal"), Leaf("solar_radiation", "baja")>>],
       [label |-> "R8", cvar |-> OutName, cons |-> "muy_corta",
        ants |-> <<Leaf("soil_moisture", "humeda")>>],
       [label |-> "R9", cvar |-> OutName, cons |-> "corta",
        ants |-> <<Leaf("soil_moisture", "seca"), Leaf("temperature", "frio")>>],
       [label |-> "R10", cvar |-> OutName, cons |-> "media",
        ants |-> <<Leaf("soil_moisture", "muy_seca"), Leaf("temperature", "frio")>>],
       [label |-> "R11", cvar |-> OutName, cons |-> "media",
        ants |-> <<Leaf("solar_radiation", "alta"), Leaf("temperature", "caliente")>>],
       [label |-> "R12", cvar |-> OutName, cons |-> "corta",
        ants |-> <<Leaf("soil_moisture", "normal"), Leaf("temperature", "templado"),
                   Leaf("solar_radiation", "media")>>] >>

\* the twelve rules, in the order of the list define_rules returns: the
\* consequent of each is a term of duration, the Consequent
define_rules ==
    << [label |-> "R1", cvar |-> OutName, cons |-> "larga",
        ants |-> <<Leaf("soil_moisture", "muy_seca"), Leaf("temperature", "caliente"),
                   Leaf("solar_radiation", "alta")>>],
       [label |-> "R2", cvar |-> OutName, cons |-> "larga",
        ants |-> <<Leaf("soil_moisture", "muy_seca"), Leaf("temperature", "caliente"),
                   Leaf("solar_radiation", "media")>>],
       [label |-> "R3", cvar |-> OutName, cons |-> "larga",
        ants |-> <<Leaf("soil_moisture", "muy_seca"), Leaf("temperature", "templado")>>],
       [label |-> "R4", cvar |-> OutName, cons |-> "media",
        ants |-> <<Leaf("soil_moisture", "seca"), Leaf("temperature", "caliente")>>],
       [label |-> "R5", cvar |-> OutName, cons |-> "media",
        ants |-> <<Leaf("soil_moisture", "seca"), Leaf("solar_radiation", "alta")>>],
       [label |-> "R6", cvar |-> OutName, cons |-> "media",
        ants |-> <<Leaf("soil_moisture", "normal"), Leaf("temperature", "caliente"),
                   Leaf("solar_radiation", "alta")>>],
       [label |-> "R7", cvar |-> OutName, cons |-> "corta",
        ants |-> <<Leaf("soil_moisture", "normal"), Leaf("solar_radiation", "baja")>>],
       [label |-> "R8", cvar |-> OutName, cons |-> "muy_corta",
        ants |-> <<Leaf("soil_moisture", "humeda")>>],
       [label |-> "R9", cvar |-> OutName, cons |-> "corta",
        ants |-> <<Leaf("soil_moisture", "seca"), Leaf("temperature", "frio")>>],
       [label |-> "R10", cvar |-> OutName, cons |-> "media",
        ants |-> <<Leaf("soil_moisture", "muy_seca"), Leaf("temperature", "frio")>>],
       [label |-> "R11", cvar |-> OutName, cons |-> "media",
        ants |-> <<Leaf("solar_radiation", "alta"), Leaf("temperature", "caliente")>>],
       [label |-> "R12", cvar |-> OutName, cons |-> "corta",
        ants |-> <<Leaf("soil_moisture", "normal"), Leaf("temperature", "templado"),
                   Leaf("solar_radiation", "media")>>] >>

NumRules == Len(define_rules)

---------------------------------------------------------------------------
(* The inference pipeline of ControlSystemSimulation.compute.              *)

\* skfuzzy.interp_membership: numpy.interp of the sampled array at x (a
\* rational), zero outside the universe
interp_membership(v, term, x) ==
    LET u == define_universes[v]
        k == u.lo + (((x[1] \div x[2]) - u.lo) \div u.step) * u.step
    IN  IF RLt(x, IntR(u.lo)) \/ RLt(IntR(u.hi), x) THEN Zero
        ELSE IF x = IntR(k) THEN mf(v, term, k)
        ELSE RAdd(mf(v, term, k),
                  RMul(RDiv(RSub(x, IntR(k)), IntR(u.step)),
                       RSub(mf(v, term, k + u.step), mf(v, term, k))))

\* an interpolation that is 0 outside the universe (left = right = 0)
np_interp_ZeroOutside(v, term, x) ==
    LET u == define_universes[v]
        k == u.lo + (((x[1] \div x[2]) - u.lo) \div u.step) * u.step
    IN  IF RLt(x, IntR(u.lo)) \/ RLt(IntR(u.hi), x) THEN Zero
        ELSE IF x = IntR(k) THEN mf(v, term, k)
        ELSE RAdd(mf(v, term, k),
                  RMul(RDiv(RSub(x, IntR(k)), IntR(u.step)),
                       RSub(mf(v, term, k + u.step), mf(v, term, k))))

\* np.interp(x, variable.universe, mf) of plot_simulation_result: the line
\* through the two samples around x; below the first point of the universe
\* the first sample, above the last point the last sample
np_interp(v, term, x) ==
    LET u == define_universes[v]
        k == u.lo + (((x[1] \div x[2]) - u.lo) \div u.step) * u.step
    IN  IF RLt(x, IntR(u.lo)) THEN mf(v, term, u.lo)
        ELSE IF RLt(IntR(u.hi), x) THEN mf(v, term, u.hi)
        ELSE IF x = IntR(k) THEN mf(v, term, k)
        ELSE RAdd(mf(v, term, k),
                  RMul(RDiv(RSub(x, IntR(k)), IntR(u.step)),
                       RSub(mf(v, term, k + u.step), mf(v, term, k))))

\* _InputAcceptor.__setitem__ with clip_to_bounds=True: the stored value
clip_to_bounds(v, x) ==
    LET u == define_universes[v]
    IN  fmax(fmin(x, IntR(u.hi)), IntR(u.lo))

\* rule.antecedent.membership_value: the leaves combined left to right with
\* and_func = numpy.fmin (a & b & c is (a & b) & c)
RECURSIVE and_leaves(_, _, _)
and_leaves(ants, i, inp) ==
    LET d == interp_membership(ants[i].var, ants[i].term, inp[ants[i].var])
    IN  IF i = 1 THEN d ELSE fmin(and_leaves(ants, i - 1, inp), d)

\* rule.aggregate_firing times the consequent's weight (1 for every rule)
aggregate_firing(rule, inp) == RMul(and_leaves(rule.ants, Len(rule.ants), inp), One)

NoCuts == [t \in Terms(OutName) |-> None]

\* an accumulation in which the rule evaluated last replaces the earlier ones
accumulate_overwrite(value, old) == value

\* consequent.accumulation_method, np.fmax by default
accumulate(value, old) == fmax(value, old)

\* compute_rule over the rules in order: the activation of each rule is
\* accumulated into the membership value of its consequent term
RECURSIVE compute_rule(_, _, _, _)
compute_rule(rs, i, inp, cuts) ==
    IF i > Len(rs) THEN cuts
    ELSE LET value == aggregate_firing(rs[i], inp)
             old == cuts[rs[i].cons]
             new == IF old = None THEN value ELSE accumulate(value, old)
         IN  compute_rule(rs, i + 1, inp, [cuts EXCEPT ![rs[i].cons] = new])

\* skfuzzy.interp_universe_fast: the points where a term's sampled array
\* crosses the level y
interp_universe_fast(term, y) ==
    LET u == define_universes[OutName]
        g(i) == mf(OutName, term, i)
        above(i) == IF y = Zero THEN RLt(Zero, g(i)) ELSE RLeq(y, g(i))
        idx == {i \in u.lo .. (u.hi - 1) : above(i) # above(i + 1)}
    IN  {RAdd(IntR(i), RDiv(RSub(y, g(i)), RSub(g(i + 1), g(i)))) : i \in idx}

\* CrispValueCalculator.find_memberships: the upsampled universe
new_universe(cuts) ==
    LET u == define_universes[OutName]
    IN  {IntR(k) : k \in u.lo .. u.hi}
        \cup UNION {interp_universe_fast(t, cuts[t]) :
                        t \in {tt \in Terms(OutName) : cuts[tt] # None}}

\* an implication that does not clip: each cut term enters the aggregate
\* with its whole shape
output_mf_Unclipped(cuts, x) ==
    LET cut == {t \in Terms(OutName) : cuts[t] # None /\ cuts[t] # Zero}
        whole(t) == interp_membership(OutName, t, x)
        best == CHOOSE t \in cut : \A o \in cut : RLeq(whole(o), whole(t))
    IN  IF cut = {} THEN Zero ELSE whole(best)

\* CrispValueCalculator.find_memberships: output_mf at one point
output_mf(cuts, x) ==
    LET cut == {t \in Terms(OutName) : cuts[t] # None}
        clipped(t) == fmin(cuts[t], interp_membership(OutName, t, x))
        best == CHOOSE t \in cut : \A o \in cut : RLeq(clipped(o), clipped(t))
    IN  IF cut = {} THEN Zero ELSE clipped(best)

\* numpy.union1d sorts the upsampled universe: the point with i - 1 points
\* below it comes i-th
sorted(S) ==
    LET rank == [p \in S |-> Cardinality({q \in S : RLt(q, p)})]
    IN  [i \in 1 .. Cardinality(S) |-> CHOOSE p \in S : rank[p] = i - 1]

\* skfuzzy.centroid over the polygon through (xs[i], ys[i]): the sums of
\* moment*area and of area of the pieces between consecutive points. Each
\* piece (rectangle, triangle or trapezoid) between points i-1 and i has
\*   moment*area = (x2-x1) * (y1*(2*x1+x2) + y2*(x1+2*x2)) / 6
\*   area        = (x2-x1) * (y1+y2) / 2
\* The pieces lo..hi are added by halves (the order of an exact sum is free).
\* moment_area_Midpoint takes the middle of every piece for its centroid.
moment_area_Midpoint(xs, ys, i) ==
    RMul(RDiv(RMul(RSub(xs[i], xs[i - 1]), RAdd(ys[i - 1], ys[i])), IntR(2)),
         RDiv(RAdd(xs[i - 1], xs[i]), IntR(2)))

\* moment_area_LeftPoint takes the left end of every piece for its centroid.
moment_area_LeftPoint(xs, ys, i) ==
    RMul(RDiv(RMul(RSub(xs[i], xs[i - 1]), RAdd(ys[i - 1], ys[i])), IntR(2)),
         xs[i - 1])

moment_area(xs, ys, i) ==
    LET x1 == xs[i - 1]
        x2 == xs[i]
    IN  RDiv(RMul(RSub(x2, x1),
                  RAdd(RMul(ys[i - 1], RAdd(RAdd(x1, x1), x2)),
                       RMul(ys[i], RAdd(x1, RAdd(x2, x2))))),
             IntR(6))

area(xs, ys, i) ==
    RDiv(RMul(RSub(xs[i], xs[i - 1]), RAdd(ys[i - 1], ys[i])), IntR(2))

RECURSIVE sum_moment_area(_, _, _, _)
sum_moment_area(xs, ys, lo, hi) ==
    IF lo > hi THEN Zero
    ELSE IF lo = hi THEN moment_area(xs, ys, lo)
    ELSE RAdd(sum_moment_area(xs, ys, lo, (lo + hi) \div 2),
              sum_moment_area(xs, ys, (lo + hi) \div 2 + 1, hi))

RECURSIVE sum_area(_, _, _, _)
sum_area(xs, ys, lo, hi) ==
    IF lo > hi THEN Zero
    ELSE IF lo = hi THEN area(xs, ys, lo)
    ELSE RAdd(sum_area(xs, ys, lo, (lo + hi) \div 2),
              sum_area(xs, ys, (lo + hi) \div 2 + 1, hi))

\* a centroid that is not divided by the area
centroid_Moment(xs, ys) == sum_moment_area(xs, ys, 2, Len(xs))

centroid(xs, ys) ==
    RDiv(sum_moment_area(xs, ys, 2, Len(xs)), sum_area(xs, ys, 2, Len(xs)))

\* CrispValueCalculator.defuzz: None stands for the exception raised when no
\* term has a membership or the total area is zero
defuzz(cuts) ==
    LET pts == sorted(new_universe(cuts))
        deg == [i \in 1 .. Len(pts) |-> output_mf(cuts, pts[i])]
    IN  IF \A t \in Terms(OutName) : cuts[t] = None THEN None
        ELSE IF \A i \in 1 .. Len(pts) : deg[i] = Zero THEN None
        ELSE centroid(pts, deg)

\* one full computation for the stored inputs inp (a function on VarNames):
\* fuzzify, fire the rules in order, accumulate, defuzzify
infer(rs, inp) == defuzz(compute_rule(rs, 1, inp, NoCuts))

---------------------------------------------------------------------------
(* The simulation object (ControlSystemSimulation) and simulate_irrigation. *)

Triple(inp) == <<inp.soil_moisture, inp.temperature, inp.solar_radiation>>

AsInput(tr) ==
    [soil_moisture |-> tr[1], temperature |-> tr[2], solar_radiation |-> tr[3]]

\* the clipped triple _InputAcceptor stores for the raw values (h, t, r)
Stored(h, t, r) ==
    <<clip_to_bounds("soil_moisture", IntR(h)),
      clip_to_bounds("temperature", IntR(t)),
      clip_to_bounds("solar_radiation", IntR(r))>>

\* the arguments of the single calls of the model: a grid that holds
\* breakpoints of the terms, the sample cases and values outside each universe
CallH == {-10, 0, 15, 35, 60, 80, 100, 120}
CallT == {-5, 0, 20, 22, 35, 40, 45}
CallR == {-10, 0, 400, 500, 900, 1000, 1200}

\* the ranges of plot_surface: np.arange(lo, hi, step)
surface_ranges ==
    [soil_moisture |-> [lo |-> 0, hi |-> 101, step |-> 5],
     temperature |-> [lo |-> 0, hi |-> 41, step |-> 2],
     solar_radiation |-> [lo |-> 0, hi |-> 1001, step |-> 50]]

\* the points of the mesh taken along each axis, the two ends among them
MeshN == 3

arange_len(v) ==
    (surface_ranges[v].hi - surface_ranges[v].lo + surface_ranges[v].step - 1)
        \div surface_ranges[v].step

mesh_range(v) ==
    [k \in 1 .. MeshN |->
        surface_ranges[v].lo
          + surface_ranges[v].step * (((k - 1) * (arange_len(v) - 1)) \div (MeshN - 1))]

\* the three sub-options of the surface menu: the two axes and the fixed one
surface_options ==
    <<[var_x |-> "soil_moisture", var_y |-> "temperature", fixed_var |-> "solar_radiation"],
      [var_x |-> "soil_moisture", var_y |-> "solar_radiation", fixed_var |-> "temperature"],
      [var_x |-> "temperature", var_y |-> "solar_radiation", fixed_var |-> "soil_moisture"]>>

\* the fixed value a user types: one outside every universe, which the
\* assignment clips to the upper end
FixedValues == {2000}

\* the inputs of the mesh point (i, j)
mesh_inputs(opt, fixed_value, i, j) ==
    LET o == surface_options[opt]
        base == [soil_moisture |-> 50, temperature |-> 20, solar_radiation |-> 500]
    IN  [v \in VarNames |->
            IF v = o.fixed_var THEN fixed_value
            ELSE IF v = o.var_y THEN mesh_range(o.var_y)[i]
            ELSE IF v = o.var_x THEN mesh_range(o.var_x)[j]
            ELSE base[v]]

\* the triples the mesh points of plot_surface store
MeshTriples ==
    {Triple([v \in VarNames |->
                clip_to_bounds(v, IntR(mesh_inputs(opt, f, i, j)[v]))]) :
        opt \in 1 .. 3, f \in FixedValues, i \in 1 .. MeshN, j \in 1 .. MeshN}

\* the rule lists a system is built from: define_rules, each of its
\* rotations by up to MaxShift places, and the reverse of each of them
MaxShift == 3

Rotate(rs, k) == [i \in 1 .. Len(rs) |-> rs[((i - 1 + k) % Len(rs)) + 1]]
Reverse(rs) == [i \in 1 .. Len(rs) |-> rs[Len(rs) + 1 - i]]

RuleLists ==
    {Rotate(define_rules, k) : k \in 0 .. MaxShift}
        \cup {Reverse(Rotate(define_rules, k)) : k \in 0 .. MaxShift}

\* the inputs the systems of the permuted lists are run on
RuleInputs == {<<15, 35, 900>>, <<60, 22, 500>>, <<35, 20, 500>>, <<5, 40, 1000>>}

\* the systems and stored triples of the model: under define_rules every
\* triple of the grid and of the mesh, under every list of RuleLists the
\* RuleInputs
TableKeys ==
    ({define_rules} \X
        ({Stored(h, t, r) : h \in CallH, t \in CallT, r \in CallR} \cup MeshTriples))
    \cup (RuleLists \X {Stored(tr[1], tr[2], tr[3]) : tr \in RuleInputs})

\* infer for each of them, evaluated once
InferTable == {<<k, infer(k[1], AsInput(k[2]))>> : k \in TableKeys}

\* infer(rs, inp), looked up
Inferred(rs, inp) == (CHOOSE e \in InferTable : e[1] = <<rs, Triple(inp)>>)[2]

\* ControlSystemSimulation.__init__: no input set, the dict of outputs
\* empty, nothing cached
NewSystem ==
    [input |-> [v \in VarNames |-> None], output |-> <<>>, calculated |-> <<>>]

\* build_system(rules): a new simulation of the control system of the rules
build_system(rs) == NewSystem

\* system.input[v] = x
set_input(sys, v, x) == [sys EXCEPT !.input[v] = clip_to_bounds(v, x)]

\* compute with a cache that is looked up without regard to the inputs
compute_CacheIgnoresInputs(rs, sys) ==
    LET id == Triple(sys.input)
        o == Inferred(rs, sys.input)
        any == CHOOSE k \in DOMAIN sys.calculated : TRUE
    IN  IF DOMAIN sys.calculated # {}
        THEN [sys |-> [sys EXCEPT !.output = (OutName :> sys.calculated[any])], raised |-> FALSE]
        ELSE IF o = None
        THEN [sys |-> sys, raised |-> TRUE]
        ELSE [sys |-> [sys EXCEPT !.output = (OutName :> o),
                                  !.calculated = (id :> o) @@ sys.calculated],
              raised |-> FALSE]

\* compute that leaves system.output alone when the triple is cached
compute_StaleOutput(rs, sys) ==
    LET id == Triple(sys.input)
        o == Inferred(rs, sys.input)
    IN  IF id \in DOMAIN sys.calculated
        THEN [sys |-> sys, raised |-> FALSE]
        ELSE IF o = None
        THEN [sys |-> sys, raised |-> TRUE]
        ELSE [sys |-> [sys EXCEPT !.output = (OutName :> o),
                                  !.calculated = (id :> o) @@ sys.calculated],
              raised |-> FALSE]

\* compute that swallows a failed defuzzification
compute_SilentFailure(rs, sys) ==
    LET id == Triple(sys.input)
        o == Inferred(rs, sys.input)
    IN  IF id \in DOMAIN sys.calculated
        THEN [sys |-> [sys EXCEPT !.output = (OutName :> sys.calculated[id])], raised |-> FALSE]
        ELSE IF o = None
        THEN [sys |-> sys, raised |-> FALSE]
        ELSE [sys |-> [sys EXCEPT !.output = (OutName :> o),
                                  !.calculated = (id :> o) @@ sys.calculated],
              raised |-> FALSE]

\* ControlSystemSimulation.compute: a triple computed before is looked up in
\* the cache (unique_id in _calculated), a new one is inferred and cached;
\* raised when an input is missing or defuzzification fails, and then
\* output and cache stay as they were
compute(rs, sys) ==
    LET id == Triple(sys.input)
        o == Inferred(rs, sys.input)
    IN  IF \E v \in VarNames : sys.input[v] = None
        THEN [sys |-> sys, raised |-> TRUE]
        ELSE IF id \in DOMAIN sys.calculated
        THEN [sys |-> [sys EXCEPT !.output = (OutName :> sys.calculated[id])], raised |-> FALSE]
        ELSE IF o = None
        THEN [sys |-> sys, raised |-> TRUE]
        ELSE [sys |-> [sys EXCEPT !.output = (OutName :> o),
                                  !.calculated = (id :> o) @@ sys.calculated],
              raised |-> FALSE]

\* the range check with strict comparisons: the two ends are rejected
InRange_Strict(v, x) == define_universes[v].lo < x /\ x < define_universes[v].hi

\* the range check without its upper bound
InRange_NoUpper(v, x) == define_universes[v].lo <= x

\* 0 <= x <= 100 (40, 1000): the range check of each argument
InRange(v, x) == define_universes[v].lo <= x /\ x <= define_universes[v].hi

Returned(sys, x) == [sys |-> sys, raised |-> "none", blame |-> "", value |-> x]
Raised(sys, exc, who) == [sys |-> sys, raised |-> exc, blame |-> who, value |-> None]

\* the three input assignments of simulate_irrigation
assign_inputs(sys, h, t, r) ==
    set_input(set_input(set_input(sys, "soil_moisture", IntR(h)),
                        "temperature", IntR(t)),
              "solar_radiation", IntR(r))

\* the Antecedents in the graph of ControlSystem(rules): the variables the
\* antecedents of the rules name
antecedents(rs) ==
    UNION {{rs[i].ants[j].var : j \in 1 .. Len(rs[i].ants)} : i \in 1 .. Len(rs)}

\* the first of the three assignments of simulate_irrigation that
\* _InputAcceptor.__setitem__ refuses with ValueError("Unexpected input: "
\* + key), the key matching no Antecedent of the graph; "" when there is none
unexpected_input(rs) ==
    IF "soil_moisture" \notin antecedents(rs) THEN "soil_moisture"
    ELSE IF "temperature" \notin antecedents(rs) THEN "temperature"
    ELSE IF "solar_radiation" \notin antecedents(rs) THEN "solar_radiation"
    ELSE ""

\* the system after the assignments that precede the one of key
assign_before(sys, key, h, t, r) ==
    IF key = "soil_moisture" THEN sys
    ELSE IF key = "temperature" THEN set_input(sys, "soil_moisture", IntR(h))
    ELSE set_input(set_input(sys, "soil_moisture", IntR(h)), "temperature", IntR(t))

\* the output read after a compute that did not raise: the entry of
\* 'irrigation_duration'; on KeyError the first value of system.output, and
\* RuntimeError when there is none
output_duration(sys) ==
    IF OutName \in DOMAIN sys.output THEN Returned(sys, sys.output[OutName])
    ELSE IF DOMAIN sys.output = {} THEN Raised(sys, "RuntimeError", "")
    ELSE Returned(sys, sys.output[CHOOSE k \in DOMAIN sys.output : TRUE])

\* the end of simulate_irrigation, c the outcome of system.compute()
read_output(c) ==
    IF c.raised THEN Raised(c.sys, "RuntimeError", "")
    ELSE output_duration(c.sys)

\* simulate_irrigation that assigns the inputs before it checks the ranges
simulate_irrigation_AssignFirst(rs, sys, h, t, r) ==
    IF ~InRange("soil_moisture", h)
    THEN Raised(assign_inputs(sys, h, t, r), "ValueError", "humedad")
    ELSE IF ~InRange("temperature", t)
    THEN Raised(assign_inputs(sys, h, t, r), "ValueError", "temperatura")
    ELSE IF ~InRange("solar_radiation", r)
    THEN Raised(assign_inputs(sys, h, t, r), "ValueError", "radiacion")
    ELSE CHOOSE res \in {read_output(c) :
                            c \in {compute(rs, assign_inputs(sys, h, t, r))}} : TRUE

\* simulate_irrigation(system, humedad, temperatura, radiacion): the system
\* afterwards, and the value returned or the exception raised. The range
\* checks raise ValueError naming the argument; the three assignments are not
\* guarded, so the ValueError of an assignment leaves the function as it is,
\* naming the key; what compute raises is raised again as RuntimeError
simulate_irrigation(rs, sys, h, t, r) ==
    IF ~InRange("soil_moisture", h) THEN Raised(sys, "ValueError", "humedad")
    ELSE IF ~InRange("temperature", t) THEN Raised(sys, "ValueError", "temperatura")
    ELSE IF ~InRange("solar_radiation", r) THEN Raised(sys, "ValueError", "radiacion")
    ELSE IF unexpected_input(rs) # ""
    THEN Raised(assign_before(sys, unexpected_input(rs), h, t, r),
                "ValueError", unexpected_input(rs))
    ELSE CHOOSE res \in {read_output(c) :
                            c \in {compute(rs, assign_inputs(sys, h, t, r))}} : TRUE

---------------------------------------------------------------------------
(* validate_input of utils/inputs.py: (es_valido, mensaje), the message
   reduced to the variable it names ("" for "Valores validos"). *)

\* a validation that looks at the temperature first
validate_input_TemperatureFirst(humedad, temperatura, radiacion) ==
    IF ~(0 <= temperatura /\ temperatura <= 40)
    THEN [es_valido |-> FALSE, mensaje |-> "temperatura"]
    ELSE IF ~(0 <= humedad /\ humedad <= 100)
    THEN [es_valido |-> FALSE, mensaje |-> "humedad"]
    ELSE IF ~(0 <= radiacion /\ radiacion <= 1000)
    THEN [es_valido |-> FALSE, mensaje |-> "radiacion"]
    ELSE [es_valido |-> TRUE, mensaje |-> ""]

validate_input(humedad, temperatura, radiacion) ==
    IF ~(0 <= humedad /\ humedad <= 100)
    THEN [es_valido |-> FALSE, mensaje |-> "humedad"]
    ELSE IF ~(0 <= temperatura /\ temperatura <= 40)
    THEN [es_valido |-> FALSE, mensaje |-> "temperatura"]
    ELSE IF ~(0 <= radiacion /\ radiacion <= 1000)
    THEN [es_valido |-> FALSE, mensaje |-> "radiacion"]
    ELSE [es_valido |-> TRUE, mensaje |-> ""]

---------------------------------------------------------------------------
(* DataLogger, execute_simulations and plot_surface. *)

\* the cases of the model: a custom entry no rule covers, two cases of
\* get_sample_inputs, and a case outside the universe of soil_moisture
SampleList ==
    <<[nombre |-> "Entrada personalizada", humedad |-> 35, temperatura |-> 20, radiacion |-> 500],
      [nombre |-> "Condiciones extremas", humedad |-> 15, temperatura |-> 35, radiacion |-> 900],
      [nombre |-> "Condiciones normales", humedad |-> 60, temperatura |-> 22, radiacion |-> 500],
      [nombre |-> "Fuera de rango", humedad |-> 120, temperatura |-> 20, radiacion |-> 500]>>

Samples == {SampleList[i] : i \in 1 .. Len(SampleList)}

MaxBatch == 2
MaxLog == 2

\* the batches: the runs of up to MaxBatch consecutive cases of the list
Batches ==
    {SubSeq(SampleList, run[1], run[2]) :
        run \in {r \in (1 .. Len(SampleList)) \X (0 .. Len(SampleList)) :
                    r[1] - 1 <= r[2] /\ r[2] - r[1] + 1 <= MaxBatch}}

\* round(x, 2) of a duration x >= 0: the nearest hundredth, a tie to the even one
round2(x) ==
    LET q == (100 * x[1]) \div x[2]
        rem == (100 * x[1]) % x[2]
    IN  IF 2 * rem > x[2] \/ (2 * rem = x[2] /\ q % 2 = 1)
        THEN Rat(q + 1, 100)
        ELSE Rat(q, 100)

\* DataLogger.__init__; log_dir stands for the directory of that name on
\* disk: TRUE while a file in it can be opened for writing
NewLogger == [log_dir |-> TRUE, csv_file |-> None, session_id |-> None, results |-> <<>>]

\* open(self.csv_file, ...) raises (OSError): of start_session and of
\* log_simulation alike
open_raises(log) == ~log.log_dir

\* DataLogger.start_session(session_name): the session_id is the tuple of
\* the name the session gets, None being the empty tuple. The names are set
\* first, the CSV file is created next and results is emptied last: when
\* the file cannot be created the call raises with the new names set and
\* results as it was
start_session(log, session_name) ==
    LET id == IF session_name = None THEN <<"session">> ELSE session_name
        named == [log EXCEPT !.session_id = id, !.csv_file = <<"logs">> \o id \o <<"csv">>]
    IN  IF open_raises(log) THEN named ELSE [named EXCEPT !.results = <<>>]

\* the record log_simulation builds
record_of(sample, duracion) ==
    [caso |-> sample.nombre, humedad |-> sample.humedad,
     temperatura |-> sample.temperatura, radiacion |-> sample.radiacion,
     duracion |-> round2(duracion)]

\* a log_simulation that appends the record before it starts the session
log_simulation_AppendBeforeStart(log, sample, duracion) ==
    LET l == [log EXCEPT !.results = Append(log.results, record_of(sample, duracion))]
    IN  IF log.session_id = None THEN start_session(l, None) ELSE l

\* DataLogger.log_simulation(input_values, output_value): the logger after
\* the call. Without a session it starts one, and what start_session raises
\* ends the call there; the record is appended to results before the CSV
\* file is opened, so it stays in results when the write raises
log_simulation(log, sample, duracion) ==
    LET auto == log.session_id = None
        l == IF auto THEN start_session(log, None) ELSE log
    IN  IF auto /\ open_raises(log) THEN l
        ELSE [l EXCEPT !.results = Append(l.results, record_of(sample, duracion))]

result_of(sample, duracion) ==
    [nombre |-> sample.nombre, humedad |-> sample.humedad,
     temperatura |-> sample.temperatura, radiacion |-> sample.radiacion,
     duracion |-> duracion]

\* a loop that puts each result in front of the list
after_sample_Prepend(st, sample, res) ==
    IF res.raised = "none"
    THEN [sys |-> res.sys,
          logger |-> log_simulation(st.logger, sample, res.value),
          results |-> <<result_of(sample, res.value)>> \o st.results]
    ELSE [sys |-> res.sys, logger |-> st.logger, results |-> st.results]

\* the end of one turn of the loop of execute_simulations, res the outcome
\* of simulate_irrigation: a failed sample is reported and skipped; so is a
\* sample whose log_simulation raises, which stands in the same try before
\* results.append
after_sample(st, sample, res) ==
    IF res.raised = "none"
    THEN [sys |-> res.sys,
          logger |-> log_simulation(st.logger, sample, res.value),
          results |-> IF open_raises(st.logger) THEN st.results
                      ELSE Append(st.results, result_of(sample, res.value))]
    ELSE [sys |-> res.sys, logger |-> st.logger, results |-> st.results]

\* the loop of execute_simulations from sample i on
RECURSIVE execute_loop(_, _, _, _)
execute_loop(rs, samples, i, st) ==
    IF i > Len(samples) THEN st
    ELSE CHOOSE out \in
            {execute_loop(rs, samples, i + 1, after_sample(st, samples[i], res)) :
                res \in {simulate_irrigation(rs, st.sys, samples[i].humedad,
                             samples[i].temperatura, samples[i].radiacion)}} : TRUE

\* execute_simulations(system, samples, logger)
execute_simulations(rs, sys, samples, log) ==
    execute_loop(rs, samples, 1, [sys |-> sys, logger |-> log, results |-> <<>>])

\* one mesh point: the inputs are assigned unchecked, and a compute or a
\* read of the output that raises leaves nan (None) in z_output
mesh_point(rs, st, inp) ==
    CHOOSE nx \in
        {[sys |-> c.sys, z |-> Append(st.z,
                             IF c.raised \/ OutName \notin DOMAIN c.sys.output
                             THEN None
                             ELSE c.sys.output[OutName])] :
            c \in {compute(rs, assign_inputs(st.sys, inp.soil_moisture,
                                            inp.temperature, inp.solar_radiation))}} : TRUE

\* the double loop of plot_surface from the point number k on
RECURSIVE surface_loop(_, _, _, _, _)
surface_loop(rs, opt, fixed_value, k, st) ==
    IF k >= MeshN * MeshN THEN st
    ELSE CHOOSE out \in
            {surface_loop(rs, opt, fixed_value, k + 1, nx) :
                nx \in {mesh_point(rs, st,
                    mesh_inputs(opt, fixed_value, (k \div MeshN) + 1, (k % MeshN) + 1))}} : TRUE

\* plot_surface(system, vars, var_x, var_y, fixed_var, fixed_value)
plot_surface(rs, sys, opt, fixed_value) ==
    surface_loop(rs, opt, fixed_value, 0, [sys |-> sys, z |-> <<>>])

---------------------------------------------------------------------------
(* The program: one system, one logger, and the operations main runs on them. *)

VARIABLES
    rules,      \* the rule list the system was built from
    system,     \* the ControlSystemSimulation build_system returned
    logger,     \* the DataLogger
    last,       \* the operation that ran last, its arguments and its outcome
    firing,     \* the firing strength of every rule, once computed
    procs,      \* the callers that share the system, each with its position
    main,       \* the position of main, and how the program ended
    shape,      \* the membership function sampled last: its points and array
    degree,     \* the degrees plot_simulation_result found, by variable and term
    calls       \* the calls made on the logger by its user, in their order

vars == <<rules, system, logger, last, firing, procs, main, shape, degree, calls>>

NoOp ==
    [op |-> "", after |-> "", args |-> <<>>, raised |-> "none", blame |-> "",
     value |-> None, samples |-> <<>>, results |-> <<>>, z |-> <<>>,
     es_valido |-> TRUE, mensaje |-> ""]

\* the outcome of the operation that ran before the one last describes
Before == IF last.op = "" THEN "" ELSE last.raised

Procs == {1, 2}

\* main before its first initialisation step, and main in the menu loop
Started ==
    [pc |-> "define_universes", entered |-> FALSE, exited |-> FALSE, status |-> 0,
     failed |-> "", left |-> "", saved |-> FALSE]

AtMenu == [Started EXCEPT !.pc = "menu", !.entered = TRUE]

\* plot_simulation_result not run yet
NoDegrees ==
    [plotted |-> FALSE, input_values |-> <<>>, output_value |-> None, degrees |-> <<>>]

\* no membership function sampled yet
NoShape == [kind |-> "", abc |-> <<>>, x |-> <<>>, y |-> <<>>]

Idle == [pc |-> "idle", args |-> <<>>, ret |-> None, raised |-> "none", alone |-> TRUE]

\* main up to the menu: the rules, the system built from them, the logger
Init ==
    /\ rules = define_rules
    /\ system = build_system(rules)
    /\ logger = NewLogger
    /\ last = NoOp
    /\ firing = <<>>
    /\ procs = [p \in Procs |-> Idle]
    /\ main = AtMenu
    /\ shape = NoShape
    /\ degree = NoDegrees
    /\ calls = <<>>

\* simulate_irrigation(system, h, t, r)
SimulateIrrigation(h, t, r) ==
    \E res \in {simulate_irrigation(rules, system, h, t, r)} :
        /\ system' = res.sys
        /\ last' = [NoOp EXCEPT !.op = "simulate_irrigation", !.after = Before,
                                !.args = <<h, t, r>>,
                                !.raised = res.raised, !.blame = res.blame,
                                !.value = res.value]
        /\ UNCHANGED <<rules, logger, firing, procs, main, shape, degree, calls>>

\* execute_simulations(system, samples, logger)
ExecuteSimulations(samples) ==
    /\ Len(logger.results) + Len(samples) <= MaxLog
    /\ \E st \in {execute_simulations(rules, system, samples, logger)} :
        /\ system' = st.sys
        /\ logger' = st.logger
        /\ last' = [NoOp EXCEPT !.op = "execute_simulations", !.after = Before,
                                !.samples = samples,
                                !.results = st.results]
    /\ UNCHANGED <<rules, firing, procs, main, shape, degree, calls>>

\* plot_surface(system, vars, var_x, var_y, fixed_var, fixed_value)
PlotSurface(opt, fixed_value) ==
    /\ \E st \in {plot_surface(rules, system, opt, fixed_value)} :
        /\ system' = st.sys
        /\ last' = [NoOp EXCEPT !.op = "plot_surface", !.after = Before,
                                !.args = <<opt, fixed_value>>,
                                !.z = st.z]
    /\ UNCHANGED <<rules, logger, firing, procs, main, shape, degree, calls>>

\* logger.start_session('riego_invernadero')
StartSession ==
    /\ logger' = start_session(logger, <<"riego_invernadero">>)
    /\ last' = [NoOp EXCEPT !.op = "start_session", !.after = Before]
    /\ UNCHANGED <<rules, system, firing, procs, main, shape, degree, calls>>

\* the directory of the logs stops taking writes (removed, read-only, disk
\* full), and takes them again: the environment of the logger
LogDirLost ==
    /\ logger.log_dir
    /\ logger' = [logger EXCEPT !.log_dir = FALSE]
    /\ last' = [NoOp EXCEPT !.op = "log_dir_lost", !.after = Before]
    /\ UNCHANGED <<rules, system, firing, procs, main, shape, degree, calls>>

LogDirBack ==
    /\ ~logger.log_dir
    /\ logger' = [logger EXCEPT !.log_dir = TRUE]
    /\ last' = [NoOp EXCEPT !.op = "log_dir_back", !.after = Before]
    /\ UNCHANGED <<rules, system, firing, procs, main, shape, degree, calls>>

\* the program of Spec runs with a directory that takes every write
Next ==
    \/ \E s \in Samples : SimulateIrrigation(s.humedad, s.temperatura, s.radiacion)
    \/ \E samples \in Batches : ExecuteSimulations(samples)
    \/ \E opt \in 1 .. 3, f \in FixedValues : PlotSurface(opt, f)
    \/ StartSession

Spec == Init /\ [][Next]_vars

---------------------------------------------------------------------------
(* Batches and sessions on a logger whose directory can stop taking writes. *)

NextBatch ==
    \/ \E samples \in Batches : ExecuteSimulations(samples)
    \/ StartSession
    \/ LogDirLost
    \/ LogDirBack

SpecBatch == Init /\ [][NextBatch]_vars

---------------------------------------------------------------------------
(* start_session and log_simulation called on a DataLogger in any order, up
   to MaxCalls calls, its directory taking writes or not. *)

MaxCalls == 3

SessionNames == {None, <<"riego_invernadero">>}

\* the cases logged, each with the duration the system gives for it
LogCases == {<<SampleList[2], Rat(364909, 18054)>>, <<SampleList[3], IntR(8)>>}

OSErrorIf(raises) == IF raises THEN "OSError" ELSE "none"

\* logger.start_session(session_name)
StartSessionCall(session_name) ==
    /\ Len(calls) < MaxCalls
    /\ logger' = start_session(logger, session_name)
    /\ calls' = Append(calls, [call |-> "start_session", record |-> None,
                               raised |-> open_raises(logger)])
    /\ last' = [NoOp EXCEPT !.op = "start_session", !.after = Before,
                            !.raised = OSErrorIf(open_raises(logger))]
    /\ UNCHANGED <<rules, system, firing, procs, main, shape, degree>>

\* logger.log_simulation(input_values, output_value)
LogSimulationCall(input_values, output_value) ==
    /\ Len(calls) < MaxCalls
    /\ logger' = log_simulation(logger, input_values, output_value)
    /\ calls' = Append(calls, [call |-> "log_simulation",
                               record |-> record_of(input_values, output_value),
                               raised |-> open_raises(logger)])
    /\ last' = [NoOp EXCEPT !.op = "log_simulation", !.after = Before,
                            !.raised = OSErrorIf(open_raises(logger))]
    /\ UNCHANGED <<rules, system, firing, procs, main, shape, degree>>

NextLog ==
    \/ \E session_name \in SessionNames : StartSessionCall(session_name)
    \/ \E c \in LogCases : LogSimulationCall(c[1], c[2])
    \/ LogDirLost
    \/ LogDirBack

SpecLog == Init /\ [][NextLog]_vars

---------------------------------------------------------------------------
(* One call on the system as built, over the grid of arguments. *)

FirstCall(h, t, r) ==
    /\ last = NoOp
    /\ SimulateIrrigation(h, t, r)

NextCall == \E h \in CallH, t \in CallT, r \in CallR : FirstCall(h, t, r)

SpecCall == Init /\ [][NextCall]_vars

---------------------------------------------------------------------------
(* validate_input and simulate_irrigation on the same three values, over the
   grid of arguments. *)

ValidateAndSimulate(h, t, r) ==
    /\ last = NoOp
    /\ \E v \in {validate_input(h, t, r)}, res \in {simulate_irrigation(rules, system, h, t, r)} :
        /\ system' = res.sys
        /\ last' = [NoOp EXCEPT !.op = "validate_input", !.after = Before,
                                !.args = <<h, t, r>>,
                                !.es_valido = v.es_valido, !.mensaje = v.mensaje,
                                !.raised = res.raised, !.blame = res.blame,
                                !.value = res.value]
    /\ UNCHANGED <<rules, logger, firing, procs, main, shape, degree, calls>>

NextValidate == \E h \in CallH, t \in CallT, r \in CallR : ValidateAndSimulate(h, t, r)

SpecValidate == Init /\ [][NextValidate]_vars

---------------------------------------------------------------------------
(* The rules of one compute, over in-range inputs: every fifth moisture,
   the breakpoints of the terms and the values of the sample cases. *)

FireH == {5 * k : k \in 0 .. 20}
FireT == {0, 5, 8, 10, 12, 15, 20, 22, 25, 28, 30, 32, 35, 40}
FireR == {100 * k : k \in 0 .. 10} \cup {250, 350, 650, 750}

\* the firing strength of every rule of the system for the inputs (h, t, r)
compute_rules(rs, h, t, r) ==
    [i \in 1 .. Len(rs) |->
        aggregate_firing(rs[i], assign_inputs(NewSystem, h, t, r).input)]

ComputeRules(h, t, r) ==
    /\ last = NoOp
    /\ firing' = compute_rules(rules, h, t, r)
    /\ last' = [NoOp EXCEPT !.op = "compute_rules", !.args = <<h, t, r>>]
    /\ UNCHANGED <<rules, system, logger, procs, main, shape, degree, calls>>

NextFire == \E h \in FireH, t \in FireT, r \in FireR : ComputeRules(h, t, r)

SpecFire == Init /\ [][NextFire]_vars

---------------------------------------------------------------------------
(* A system built from a permutation of the rules, and calls on it. *)

InitRules ==
    /\ rules \in RuleLists
    /\ system = build_system(rules)
    /\ logger = NewLogger
    /\ last = NoOp
    /\ firing = <<>>
    /\ procs = [p \in Procs |-> Idle]
    /\ main = AtMenu
    /\ shape = NoShape
    /\ degree = NoDegrees
    /\ calls = <<>>

NextRules == \E tr \in RuleInputs : SimulateIrrigation(tr[1], tr[2], tr[3])

SpecRules == InitRules /\ [][NextRules]_vars

---------------------------------------------------------------------------
(* A system built from an empty rule list, and calls on it. *)

InitEmpty ==
    /\ rules = <<>>
    /\ system = build_system(rules)
    /\ logger = NewLogger
    /\ last = NoOp
    /\ firing = <<>>
    /\ procs = [p \in Procs |-> Idle]
    /\ main = AtMenu
    /\ shape = NoShape
    /\ degree = NoDegrees
    /\ calls = <<>>

NextEmpty == \E h \in CallH, t \in CallT, r \in CallR : SimulateIrrigation(h, t, r)

SpecEmpty == InitEmpty /\ [][NextEmpty]_vars

---------------------------------------------------------------------------
(* main from its first statement: the initialisation steps, each of which
   may raise, the menu loop, and the handler of __main__. *)

\* the initialisation steps of main in their order, and what follows each
InitSteps ==
    <<"define_universes", "define_memberships", "define_rules", "build_system", "logger">>

after_step(step) ==
    IF step = "logger" THEN "menu"
    ELSE InitSteps[1 + CHOOSE i \in 1 .. Len(InitSteps) : InitSteps[i] = step]

\* an initialisation step whose exception is caught and reported where it is
\* raised, main going on with the next step
init_step_GoesOn(m, ok) ==
    [m EXCEPT !.pc = after_step(m.pc),
              !.entered = (after_step(m.pc) = "menu"),
              !.failed = IF ok THEN m.failed ELSE m.pc]

\* an initialisation step of main: it returns and main goes on (into the
\* menu loop after the last one), or it raises an Exception, which leaves
\* main for the handler of __main__: the message, then sys.exit(1)
init_step(m, ok) ==
    IF ok
    THEN [m EXCEPT !.pc = after_step(m.pc), !.entered = (after_step(m.pc) = "menu")]
    ELSE [m EXCEPT !.pc = "exit", !.exited = TRUE, !.status = 1, !.failed = m.pc]

\* main returns after the break of the loop: the program ends with status 0
main_returns(m) == [m EXCEPT !.pc = "exit", !.exited = TRUE, !.status = 0]

\* an Exception leaves main from inside the loop (raised by a handler of the
\* loop's try): the handler of __main__ ends the program with status 1
main_raises(m) == [m EXCEPT !.pc = "exit", !.exited = TRUE, !.status = 1]

InitMain ==
    /\ rules = None
    /\ system = None
    /\ logger = None
    /\ last = NoOp
    /\ firing = <<>>
    /\ procs = [p \in Procs |-> Idle]
    /\ main = Started
    /\ shape = NoShape
    /\ degree = NoDegrees
    /\ calls = <<>>

\* universes = define_universes()
DefineUniverses(ok) ==
    /\ main.pc = "define_universes"
    /\ main' = init_step(main, ok)
    /\ UNCHANGED <<rules, system, logger, last, firing, procs, shape, degree, calls>>

\* vars = define_memberships(universes)
DefineMemberships(ok) ==
    /\ main.pc = "define_memberships"
    /\ main' = init_step(main, ok)
    /\ UNCHANGED <<rules, system, logger, last, firing, procs, shape, degree, calls>>

\* rules = define_rules(vars)
DefineRules(ok) ==
    /\ main.pc = "define_rules"
    /\ main' = init_step(main, ok)
    /\ rules' = IF ok THEN define_rules ELSE rules
    /\ UNCHANGED <<system, logger, last, firing, procs, shape, degree, calls>>

\* system = build_system(rules)
BuildSystem(ok) ==
    /\ main.pc = "build_system"
    /\ main' = init_step(main, ok)
    /\ system' = IF ok THEN build_system(rules) ELSE system
    /\ UNCHANGED <<rules, logger, last, firing, procs, shape, degree, calls>>

\* logger = DataLogger(log_dir='logs'); logger.start_session('riego_invernadero')
InitLogger(ok) ==
    /\ main.pc = "logger"
    /\ main' = init_step(main, ok)
    /\ logger' = IF ok THEN start_session(NewLogger, <<"riego_invernadero">>) ELSE logger
    /\ UNCHANGED <<rules, system, last, firing, procs, shape, degree, calls>>

\* options 1 to 3 and 6 of the menu; what they raise is caught in the loop
MenuOption ==
    /\ main.pc = "menu"
    /\ \/ \E s \in Samples : SimulateIrrigation(s.humedad, s.temperatura, s.radiacion)
       \/ \E samples \in Batches : ExecuteSimulations(samples)

\* the loop is left: by what (left), and with logger.save_summary called
\* on the way out or not (saved)
loop_left(m, by, summary) == [m EXCEPT !.left = by, !.saved = summary]

\* the status of a program ended by a KeyboardInterrupt nothing caught: 1,
\* or 130 where the interpreter ends by the signal
InterruptStatus == {1, 130}

\* option 0: logger.save_summary(...) and break; when save_summary raises,
\* the loop reports it and goes on
Quit(ok) ==
    /\ main.pc = "menu"
    /\ main' = IF ok THEN main_returns(loop_left(main, "option_0", TRUE)) ELSE main
    /\ last' = IF ok THEN last
               ELSE [NoOp EXCEPT !.op = "save_summary", !.after = Before, !.raised = "OSError"]
    /\ UNCHANGED <<rules, system, logger, firing, procs, shape, degree, calls>>

\* KeyboardInterrupt inside the try of the loop (the read of the option, or
\* an option at work): logger.save_summary() and break; what save_summary
\* raises in this handler leaves main
Interrupt(ok) ==
    /\ main.pc = "menu"
    /\ main' = IF ok THEN main_returns(loop_left(main, "KeyboardInterrupt", TRUE))
               ELSE main_raises(loop_left(main, "KeyboardInterrupt", TRUE))
    /\ UNCHANGED <<rules, system, logger, last, firing, procs, shape, degree, calls>>

\* print_menu() at the head of a turn stands outside the try: a
\* KeyboardInterrupt that arrives while it prints leaves main with no
\* handler run (the handler of __main__ catches Exception only)
InterruptPrintMenu(status) ==
    /\ main.pc = "menu"
    /\ main' = [main_raises(loop_left(main, "KeyboardInterrupt", FALSE)) EXCEPT !.status = status]
    /\ UNCHANGED <<rules, system, logger, last, firing, procs, shape, degree, calls>>

\* print_menu() raises an Exception (the output is closed): it leaves main
\* for the handler of __main__
PrintMenuRaises ==
    /\ main.pc = "menu"
    /\ main' = main_raises(loop_left(main, "Exception", FALSE))
    /\ UNCHANGED <<rules, system, logger, last, firing, procs, shape, degree, calls>>

\* input(...) of the option raises (EOFError on a closed input): caught by
\* except Exception, reported, and the loop goes on
ReadOptionRaises ==
    /\ main.pc = "menu"
    /\ last' = [NoOp EXCEPT !.op = "input", !.after = Before, !.raised = "EOFError"]
    /\ UNCHANGED <<rules, system, logger, main, firing, procs, shape, degree, calls>>

NextMain ==
    \/ \E ok \in BOOLEAN : DefineUniverses(ok)
    \/ \E ok \in BOOLEAN : DefineMemberships(ok)
    \/ \E ok \in BOOLEAN : DefineRules(ok)
    \/ \E ok \in BOOLEAN : BuildSystem(ok)
    \/ \E ok \in BOOLEAN : InitLogger(ok)
    \/ MenuOption
    \/ \E ok \in BOOLEAN : Quit(ok)
    \/ \E ok \in BOOLEAN : Interrupt(ok)
    \/ \E status \in InterruptStatus : InterruptPrintMenu(status)
    \/ PrintMenuRaises
    \/ ReadOptionRaises

SpecMain == InitMain /\ [][NextMain]_vars

---------------------------------------------------------------------------
(* The membership functions: fuzz.trimf and fuzz.trapmf over a universe, for
   every choice of control points a <= b <= c (<= d) among the points of a
   universe 0 .. ShapeMax, and for the terms define_memberships assigns. *)

ShapeMax == 5

\* np.arange(lo, hi + 1, step) as an array
arange(lo, hi, step) == [i \in 1 .. ((hi - lo) \div step) + 1 |-> lo + (i - 1) * step]

universe(v) ==
    arange(define_universes[v].lo, define_universes[v].hi, define_universes[v].step)

\* fuzz.trimf(x, [a, b, c]): the array over the universe x
Trimf(a, b, c) ==
    /\ a <= b /\ b <= c
    /\ \E x \in {arange(0, ShapeMax, 1)} :
        shape' = [kind |-> "trimf", abc |-> <<a, b, c>>, x |-> x,
                  y |-> [i \in DOMAIN x |-> trimf(x[i], a, b, c)]]
    /\ UNCHANGED <<rules, system, logger, last, firing, procs, main, degree, calls>>

\* fuzz.trapmf(x, [a, b, c, d]): the array over the universe x
Trapmf(a, b, c, d) ==
    /\ a <= b /\ b <= c /\ c <= d
    /\ \E x \in {arange(0, ShapeMax, 1)} :
        shape' = [kind |-> "trapmf", abc |-> <<a, b, c, d>>, x |-> x,
                  y |-> [i \in DOMAIN x |-> trapmf(x[i], a, b, c, d)]]
    /\ UNCHANGED <<rules, system, logger, last, firing, procs, main, degree, calls>>

\* variable[term] = fuzz.trimf(variable.universe, [...]) (or fuzz.trapmf) of
\* define_memberships
AssignTerm(v, term) ==
    /\ \E x \in {universe(v)} :
        shape' = [kind |-> IF Len(define_memberships[v][term]) = 3
                           THEN "trimf" ELSE "trapmf",
                  abc |-> define_memberships[v][term], x |-> x,
                  y |-> [i \in DOMAIN x |-> mf(v, term, x[i])]]
    /\ UNCHANGED <<rules, system, logger, last, firing, procs, main, degree, calls>>

NextShape ==
    \/ \E a, b, c \in 0 .. ShapeMax : Trimf(a, b, c)
    \/ \E a, b, c, d \in 0 .. ShapeMax : Trapmf(a, b, c, d)
    \/ \E k \in 1 .. Len(term_assignments) :
            AssignTerm(term_assignments[k][1], term_assignments[k][2])

SpecShape == Init /\ [][NextShape]_vars

---------------------------------------------------------------------------
(* plot_simulation_result: the degree of every term of the three inputs and
   of the output at the values of a case. The values of case k are k/10 %,
   k/25 C, k W/m2 and 3k/100 min, k from PlotMargin below 0 to PlotMargin
   above 1000: values on and between the samples of each universe, and
   values outside it. *)

PlotMargin == 20

plot_values(k) == [humedad |-> Rat(k, 10), temperatura |-> Rat(k, 25), radiacion |-> IntR(k)]

plot_output(k) == Rat(3 * k, 100)

\* the key of input_values each variable is read from
input_key == [soil_moisture |-> "humedad", temperature |-> "temperatura",
              solar_radiation |-> "radiacion"]

\* hum_val, temp_val, rad_val and out_val
plotted_value(input_values, output_value, v) ==
    IF v = OutName THEN output_value ELSE input_values[input_key[v]]

\* plot_simulation_result(system, input_values, output_value, vars): the
\* degree it computes for each term of each input variable and of the output
plot_simulation_result(input_values, output_value) ==
    [plotted |-> TRUE,
     input_values |-> input_values,
     output_value |-> output_value,
     degrees |-> [v \in VarNames \cup {OutName} |->
                    [term \in Terms(v) |->
                        np_interp(v, term, plotted_value(input_values, output_value, v))]]]

PlotSimulationResult(input_values, output_value) ==
    /\ degree' = plot_simulation_result(input_values, output_value)
    /\ UNCHANGED <<rules, system, logger, last, firing, procs, main, shape, calls>>

\* the first plot of a session
FirstPlot(input_values, output_value) ==
    /\ ~degree.plotted
    /\ PlotSimulationResult(input_values, output_value)

NextDegree ==
    \E k \in (0 - PlotMargin) .. (1000 + PlotMargin) :
        FirstPlot(plot_values(k), plot_output(k))

SpecDegree == Init /\ [][NextDegree]_vars

---------------------------------------------------------------------------
(* Two callers of simulate_irrigation on the one system, a step of a caller
   being a statement of the function. *)

ConcInputs == {<<15, 35, 900>>, <<60, 22, 500>>, <<120, 20, 500>>}

InCall(q) == procs[q].pc \notin {"idle", "done"}

\* the step of p writes the system: every other caller in the middle of
\* its call has no longer run alone
Disturb(p, next) ==
    [q \in Procs |->
        IF q = p THEN next
        ELSE IF InCall(q) THEN [procs[q] EXCEPT !.alone = FALSE]
        ELSE procs[q]]

\* p enters simulate_irrigation: the range checks
Call(p, h, t, r) ==
    /\ procs[p].pc = "idle"
    /\ procs' = [procs EXCEPT ![p] =
            IF InRange("soil_moisture", h) /\ InRange("temperature", t)
                /\ InRange("solar_radiation", r)
            THEN [Idle EXCEPT !.pc = "humedad", !.args = <<h, t, r>>]
            ELSE [Idle EXCEPT !.pc = "done", !.args = <<h, t, r>>,
                              !.raised = "ValueError"]]
    /\ UNCHANGED <<rules, system, logger, last, firing, main, shape, degree, calls>>

\* system.input['soil_moisture'] = humedad
AssignHumedad(p) ==
    /\ procs[p].pc = "humedad"
    /\ system' = set_input(system, "soil_moisture", IntR(procs[p].args[1]))
    /\ procs' = Disturb(p, [procs[p] EXCEPT !.pc = "temperatura"])
    /\ UNCHANGED <<rules, logger, last, firing, main, shape, degree, calls>>

\* system.input['temperature'] = temperatura
AssignTemperatura(p) ==
    /\ procs[p].pc = "temperatura"
    /\ system' = set_input(system, "temperature", IntR(procs[p].args[2]))
    /\ procs' = Disturb(p, [procs[p] EXCEPT !.pc = "radiacion"])
    /\ UNCHANGED <<rules, logger, last, firing, main, shape, degree, calls>>

\* system.input['solar_radiation'] = radiacion
AssignRadiacion(p) ==
    /\ procs[p].pc = "radiacion"
    /\ system' = set_input(system, "solar_radiation", IntR(procs[p].args[3]))
    /\ procs' = Disturb(p, [procs[p] EXCEPT !.pc = "compute"])
    /\ UNCHANGED <<rules, logger, last, firing, main, shape, degree, calls>>

\* system.compute()
Compute(p) ==
    /\ procs[p].pc = "compute"
    /\ \E c \in {compute(rules, system)} :
        /\ system' = c.sys
        /\ procs' = Disturb(p,
                IF c.raised
                THEN [procs[p] EXCEPT !.pc = "done", !.raised = "RuntimeError"]
                ELSE [procs[p] EXCEPT !.pc = "read"])
    /\ UNCHANGED <<rules, logger, last, firing, main, shape, degree, calls>>

\* duration = system.output['irrigation_duration']; return float(duration)
ReadOutput(p) ==
    /\ procs[p].pc = "read"
    /\ procs' = [procs EXCEPT ![p] =
            IF output_duration(system).raised = "none"
            THEN [procs[p] EXCEPT !.pc = "done", !.ret = output_duration(system).value]
            ELSE [procs[p] EXCEPT !.pc = "done", !.raised = "RuntimeError"]]
    /\ UNCHANGED <<rules, system, logger, last, firing, main, shape, degree, calls>>

NextConc ==
    \E p \in Procs :
        \/ \E tr \in ConcInputs : Call(p, tr[1], tr[2], tr[3])
        \/ AssignHumedad(p)
        \/ AssignTemperatura(p)
        \/ AssignRadiacion(p)
        \/ Compute(p)
        \/ ReadOutput(p)

SpecConc == Init /\ [][NextConc]_vars

---------------------------------------------------------------------------
(* Properties. *)

Called == last.op = "simulate_irrigation"

\* x lies in the universe of the variable
Within(v, x) == define_universes[v].lo <= x /\ x <= define_universes[v].hi

ArgsInRange ==
    /\ Within("soil_moisture", last.args[1])
    /\ Within("temperature", last.args[2])
    /\ Within("solar_radiation", last.args[3])

\* the outcome of simulate_irrigation(h, t, r) on a system just built from
\* define_rules
Fresh(h, t, r) == simulate_irrigation(define_rules, NewSystem, h, t, r)

FirstOutOfRange ==
    IF ~Within("soil_moisture", last.args[1]) THEN "humedad"
    ELSE IF ~Within("temperature", last.args[2]) THEN "temperatura"
    ELSE "radiacion"

\* C1 as stated: a call with an argument outside its universe is not
\* rejected; it returns the output of the arguments clamped to the bounds.
C1_ClampedNotRejected ==
    (Called /\ ~ArgsInRange) =>
        /\ last.raised # "ValueError"
        /\ last.value = Inferred(define_rules,
                AsInput(Stored(last.args[1], last.args[2], last.args[3])))

\* C1 as the code has it: a call is rejected with ValueError exactly when an
\* argument lies outside its universe; the error names the first such
\* argument, no value is returned and nothing is assigned to the system.
C1_OutOfRangeRejected ==
    Called =>
        /\ (last.raised = "ValueError") <=> ~ArgsInRange
        /\ ~ArgsInRange =>
            /\ last.blame = FirstOutOfRange
            /\ last.value = None
            /\ system = build_system(rules)

C1_Witness ==
    /\ Called
    /\ last.args = <<60, 22, 1200>>
    /\ last.raised = "ValueError"
    /\ last.blame = "radiacion"

Done(p) == procs[p].pc = "done"

OwnOutcome(p) == Fresh(procs[p].args[1], procs[p].args[2], procs[p].args[3])

\* C2 as stated: under every interleaving, a call that returns returns the
\* output of its own three inputs.
C2_EveryCallOwnOutput ==
    \A p \in Procs :
        (Done(p) /\ procs[p].raised = "none") => procs[p].ret = OwnOutcome(p).value

\* C2 as the code has it: system.input and system.output are shared, and
\* only a call during which no other caller wrote the system is sure to end
\* as it would alone, with the output of its own inputs or its own error.
C2_UndisturbedCallOwnOutput ==
    \A p \in Procs :
        (Done(p) /\ procs[p].alone) =>
            /\ procs[p].raised = OwnOutcome(p).raised
            /\ procs[p].ret = OwnOutcome(p).value

\* one caller ran undisturbed and has its own output, the other was
\* disturbed and has an output that is not the one of its inputs
C2_Witness ==
    \E p, q \in Procs :
        /\ Done(p) /\ procs[p].alone /\ procs[p].raised = "none"
        /\ procs[p].ret = OwnOutcome(p).value
        /\ Done(q) /\ ~procs[q].alone /\ procs[q].raised = "none"
        /\ procs[q].ret # OwnOutcome(q).value

\* C3: whatever ran on the system before (calls that succeeded, calls that
\* were rejected or failed, batches, surface sweeps), a call returns or
\* raises what the same arguments give on a system just built; so two calls
\* with the same arguments return the same output.
C3_ResultDependsOnArgumentsOnly ==
    Called =>
        /\ last.raised = Fresh(last.args[1], last.args[2], last.args[3]).raised
        /\ last.value = Fresh(last.args[1], last.args[2], last.args[3]).value

\* a call that succeeded on a system that holds the results of a sweep and
\* of other calls, after a batch was logged
C3_Witness ==
    /\ Called
    /\ last.args = <<15, 35, 900>>
    /\ last.raised = "none"
    /\ Cardinality(DOMAIN system.calculated) > MeshN
    /\ Stored(60, 22, 500) \in DOMAIN system.calculated
    /\ logger.results # <<>>

Batch == last.op = "execute_simulations"

Succeeds(sample) ==
    Fresh(sample.humedad, sample.temperatura, sample.radiacion).raised = "none"

FreshResult(sample) ==
    result_of(sample,
              Fresh(sample.humedad, sample.temperatura, sample.radiacion).value)

ZeroMass ==
    \A i \in 1 .. Len(rules) :
        compute_rules(rules, last.args[1], last.args[2], last.args[3])[i] = Zero

C6_FailedCallLeavesSystemReusable ==
    [][/\ (last'.op = "simulate_irrigation" /\ last'.raised = "ValueError")
            => system' = system
       /\ (/\ last.op = "simulate_irrigation"
           /\ last.raised # "none"
           /\ last'.op = "simulate_irrigation"
           /\ Within("soil_moisture", last'.args[1])
           /\ Within("temperature", last'.args[2])
           /\ Within("solar_radiation", last'.args[3]))
            => /\ last'.raised = Fresh(last'.args[1], last'.args[2], last'.args[3]).raised
               /\ last'.value = Fresh(last'.args[1], last'.args[2], last'.args[3]).value
               /\ last'.after = last.raised]_vars

\* a call that returned an output right after a call that was rejected, on a
\* system that had been used before
C6_Witness ==
    /\ Called
    /\ last.after = "ValueError"
    /\ last.raised = "none"
    /\ last.value # None
    /\ Cardinality(DOMAIN system.calculated) > 1

Fired == last.op = "compute_rules"

\* C7: for every in-range input triple, the firing strength of each of the
\* twelve rules lies in [0, 1].
C7_FiringStrengthInUnitInterval ==
    Fired =>
        /\ Len(firing) = NumRules
        /\ \A i \in 1 .. NumRules : RLeq(Zero, firing[i]) /\ RLeq(firing[i], One)

\* inputs for which a rule fires fully, a rule fires partly and a rule does
\* not fire
C7_Witness ==
    /\ Fired
    /\ \E i, j, k \in 1 .. NumRules :
        /\ firing[i] = One
        /\ RLt(Zero, firing[j]) /\ RLt(firing[j], One)
        /\ firing[k] = Zero

\* the largest firing strength among the rules of the list with the
\* consequent term, None when no rule has it
MaxFiring(rs, term, h, t, r) ==
    LET of_term == {i \in 1 .. Len(rs) : rs[i].cons = term}
        strength == compute_rules(rs, h, t, r)
    IN  IF of_term = {} THEN None
        ELSE strength[CHOOSE i \in of_term :
                        \A j \in of_term : RLeq(strength[j], strength[i])]

\* C8: each consequent term is cut at the maximum of the firing strengths of
\* the rules that target it, and a call on a system built from a permutation
\* of the rules returns or raises what it does with the rules in the order
\* of define_rules.
C8_RuleOrderIrrelevant ==
    Called =>
        /\ \A term \in Terms(OutName) :
                compute_rule(rules, 1,
                    assign_inputs(NewSystem, last.args[1], last.args[2], last.args[3]).input,
                    NoCuts)[term]
                  = MaxFiring(define_rules, term, last.args[1], last.args[2], last.args[3])
        /\ last.raised = Fresh(last.args[1], last.args[2], last.args[3]).raised
        /\ last.value = Fresh(last.args[1], last.args[2], last.args[3]).value

\* a call that returned on a system built from the rules in another order,
\* for inputs that fire several rules of one consequent term
C8_Witness ==
    /\ Called
    /\ rules # define_rules
    /\ last.args = <<15, 35, 900>>
    /\ last.raised = "none"

AtExtremeCase == Fired /\ last.args = <<15, 35, 900>>

\* C9 as stated: at (15, 35, 900) rule R1 fires near its maximum strength,
\* min(muy_seca(15), caliente(35), alta(900)) being close to 1.
C9_R1NearMaximum ==
    AtExtremeCase => RLeq(Rat(9, 10), firing[1])

\* C9 as the code has it: muy_seca(15) = 1/2, caliente(35) = 1 and
\* alta(900) = 1, so R1 fires at 1/2; the rule that fires fully is R11.
C9_R1HalfStrength ==
    AtExtremeCase =>
        /\ define_rules[1].label = "R1"
        /\ firing[1] = Rat(1, 2)
        /\ interp_membership("soil_moisture", "muy_seca", IntR(15)) = Rat(1, 2)
        /\ interp_membership("temperature", "caliente", IntR(35)) = One
        /\ interp_membership("solar_radiation", "alta", IntR(900)) = One
        /\ define_rules[11].label = "R11"
        /\ firing[11] = One

C9_Witness ==
    /\ AtExtremeCase
    /\ RLt(Zero, firing[1])
    /\ RLt(firing[1], firing[11])

AtExtremeCall == Called /\ last.args = <<15, 35, 900>>

\* C10 as stated: the duration returned at (15, 35, 900) lies in 22 .. 28.
C10_DurationIn22To28 ==
    AtExtremeCall =>
        /\ last.raised = "none"
        /\ RLeq(IntR(22), last.value)
        /\ RLeq(last.value, IntR(28))

\* C10 as the code has it: the duration returned at (15, 35, 900) is
\* 364909/18054, between 20 and 21: 'media' cut at 1 by R11 outweighs 'larga'
\* cut at 1/2 by R1.
C10_DurationBetween20And21 ==
    AtExtremeCall =>
        /\ last.raised = "none"
        /\ last.value = Rat(364909, 18054)
        /\ RLt(IntR(20), last.value)
        /\ RLt(last.value, IntR(21))

C10_Witness ==
    /\ AtExtremeCall
    /\ rules = define_rules
    /\ system.output = (OutName :> last.value)
    /\ last.value # None

AtWetCall == Called /\ last.args = <<80, 20, 400>>

\* the firing strength of every rule for the arguments of the call
Strengths == compute_rules(rules, last.args[1], last.args[2], last.args[3])

\* C11: at (80, 20, 400), the sample case 'Suelo humedo', rule R8 (humeda
\* alone -> muy_corta) has a firing strength above that of each of the other
\* eleven rules, and the call returns a duration in the low single digits,
\* near the low end of the universe 0 .. 30 (38/15, about 2.53).
C11_R8DominatesWetSoil ==
    AtWetCall =>
        /\ define_rules[8].label = "R8"
        /\ define_rules[8].ants = <<Leaf("soil_moisture", "humeda")>>
        /\ define_rules[8].cons = "muy_corta"
        /\ \A i \in (1 .. NumRules) \ {8} : RLt(Strengths[i], Strengths[8])
        /\ last.raised = "none"
        /\ last.value = Rat(38, 15)
        /\ RLt(Zero, last.value)
        /\ RLt(last.value, IntR(5))

\* the call at (80, 20, 400) returned, with R8 firing partly
C11_Witness ==
    /\ AtWetCall
    /\ Strengths[8] = Rat(2, 3)
    /\ last.raised = "none"
    /\ OutName \in DOMAIN system.output

AtBounds == Called /\ last.args \in {<<0, 0, 0>>, <<100, 40, 1000>>}

\* C12: with the three inputs at the minimums (0, 0, 0) and with the three at
\* the maximums (100, 40, 1000) simulate_irrigation passes the range checks,
\* a rule fires with positive strength and an output inside the universe of
\* irrigation_duration is returned, no error raised.
C12_BoundsGiveDefinedOutput ==
    AtBounds =>
        /\ last.raised = "none"
        /\ \E i \in 1 .. NumRules : RLt(Zero, Strengths[i])
        /\ last.value # None
        /\ RLeq(IntR(define_universes[OutName].lo), last.value)
        /\ RLeq(last.value, IntR(define_universes[OutName].hi))
        /\ system.input = AsInput(<<IntR(last.args[1]), IntR(last.args[2]), IntR(last.args[3])>>)

\* the call at the three maximums returned: R8 and R11 fire fully
C12_Witness ==
    /\ Called
    /\ last.args = <<100, 40, 1000>>
    /\ last.raised = "none"
    /\ Strengths[8] = One /\ Strengths[11] = One
    /\ last.value = Rat(259, 23)

\* C13: on a system built from an empty rule list, a call with arguments in
\* range returns a value or raises the RuntimeError of simulate_irrigation;
\* no other exception leaves the function.
C13_EmptyRulesDocumentedOutcome ==
    (Called /\ rules = <<>> /\ ArgsInRange) =>
        last.raised \in {"none", "RuntimeError"}

\* the steps that define and build the engine
EngineSteps == {"define_universes", "define_memberships", "define_rules", "build_system"}

\* C14: when an initialisation step of main raises, the program has ended
\* with status 1 without the menu loop ever entered and without any
\* operation of the menu run; when the step is one of define_universes,
\* define_memberships, define_rules and build_system, no system exists.
C14_InitFailureExitsBeforeMenu ==
    main.failed # "" =>
        /\ main.pc = "exit"
        /\ main.exited
        /\ main.status = 1
        /\ ~main.entered
        /\ last = NoOp
        /\ main.failed \in EngineSteps => system = None

\* build_system raised after the rules were defined: the program has ended
C14_Witness ==
    /\ main.failed = "build_system"
    /\ rules = define_rules
    /\ main.exited
    /\ main.status = 1

\* the terms assigned on the variable by define_memberships
Assigned(v) ==
    {term_assignments[k][2] :
        k \in {n \in 1 .. Len(term_assignments) : term_assignments[n][1] = v}}

\* C15: in the rules the system is built from, every leaf of every
\* antecedent names an Antecedent (soil_moisture, temperature,
\* solar_radiation) and a term define_memberships assigned on it, every
\* consequent names the Consequent irrigation_duration and a term assigned
\* on it, and no term name is assigned twice on a variable.
C15_RulesNameRegisteredTerms ==
    /\ \A i \in 1 .. Len(rules) :
        /\ \A j \in 1 .. Len(rules[i].ants) :
            /\ rules[i].ants[j].var \in VarNames
            /\ variable_roles[rules[i].ants[j].var] = "Antecedent"
            /\ rules[i].ants[j].term \in Assigned(rules[i].ants[j].var)
            /\ rules[i].ants[j].term \in Terms(rules[i].ants[j].var)
        /\ rules[i].cvar = OutName
        /\ variable_roles[rules[i].cvar] = "Consequent"
        /\ rules[i].cons \in Assigned(rules[i].cvar)
        /\ rules[i].cons \in Terms(rules[i].cvar)
    /\ \A m, n \in 1 .. Len(term_assignments) :
            m # n => term_assignments[m] # term_assignments[n]
    /\ \A v \in DOMAIN variable_roles :
            Assigned(v) = Terms(v) /\ v \in DOMAIN define_universes

\* a system built from the twelve rules in another order answered a call:
\* rules of one leaf and of three leaves are among them
C15_Witness ==
    /\ Len(rules) = NumRules
    /\ rules # define_rules
    /\ \E i, j \in 1 .. Len(rules) : Len(rules[i].ants) = 1 /\ Len(rules[j].ants) = 3
    /\ Called
    /\ last.args = <<60, 22, 500>>
    /\ last.raised = "none"

\* the indices of the sampled universe, and the degree sampled at the point p
Grid == DOMAIN shape.x

At(p) == shape.y[CHOOSE i \in Grid : shape.x[i] = p]

Triangular == shape.kind = "trimf"

\* the shape sampled is a term of define_memberships over its universe
Configured ==
    \E k \in 1 .. Len(term_assignments) :
        /\ define_memberships[term_assignments[k][1]][term_assignments[k][2]] = shape.abc
        /\ universe(term_assignments[k][1]) = shape.x

InUnitInterval == \A i \in Grid : RLeq(Zero, shape.y[i]) /\ RLeq(shape.y[i], One)

\* the array does not fall on [lo, hi] (Rising) or does not rise (Falling)
Rising(lo, hi) ==
    \A i, j \in Grid :
        (lo <= shape.x[i] /\ shape.x[i] <= shape.x[j] /\ shape.x[j] <= hi)
            => RLeq(shape.y[i], shape.y[j])

Falling(lo, hi) ==
    \A i, j \in Grid :
        (lo <= shape.x[i] /\ shape.x[i] <= shape.x[j] /\ shape.x[j] <= hi)
            => RLeq(shape.y[j], shape.y[i])

\* C16 as stated: for every triangle a <= b <= c, the degenerate ones a = b
\* and b = c among them, degree(a) = 0, degree(b) = 1 and degree(c) = 0; the
\* degree does not fall on [a, b], does not rise on [b, c] and lies in [0, 1].
C16_TriangleZeroAtBothFeet ==
    Triangular =>
        /\ At(shape.abc[1]) = Zero
        /\ At(shape.abc[2]) = One
        /\ At(shape.abc[3]) = Zero
        /\ Rising(shape.abc[1], shape.abc[2])
        /\ Falling(shape.abc[2], shape.abc[3])
        /\ InUnitInterval

\* C16 as the code has it: degree(b) = 1 for every triangle; degree(a) = 0
\* when a < b and degree(c) = 0 when b < c, a foot that coincides with the
\* peak having the degree 1; the degree is 0 below a and above c, does not
\* fall on [a, b], does not rise on [b, c] and lies in [0, 1]. The
\* triangular terms of define_memberships have a < b < c.
C16_TrianglePeakOverFeet ==
    Triangular =>
        /\ At(shape.abc[2]) = One
        /\ shape.abc[1] < shape.abc[2] => At(shape.abc[1]) = Zero
        /\ shape.abc[2] < shape.abc[3] => At(shape.abc[3]) = Zero
        /\ \A i \in Grid :
                (shape.x[i] < shape.abc[1] \/ shape.x[i] > shape.abc[3])
                    => shape.y[i] = Zero
        /\ Rising(shape.abc[1], shape.abc[2])
        /\ Falling(shape.abc[2], shape.abc[3])
        /\ InUnitInterval
        /\ Configured => shape.abc[1] < shape.abc[2] /\ shape.abc[2] < shape.abc[3]

\* a triangle with a = b < c, sampled: 1 at a, between 0 and 1 inside
C16_Witness ==
    /\ Triangular
    /\ shape.abc[1] = shape.abc[2]
    /\ shape.abc[2] + 1 < shape.abc[3]
    /\ At(shape.abc[1]) = One
    /\ \E i \in Grid : RLt(Zero, shape.y[i]) /\ RLt(shape.y[i], One)

Trapezoidal == shape.kind = "trapmf"

\* C17: for every trapezoid a <= b <= c <= d, the shoulder terms of
\* define_memberships (a = b at the minimum of the universe, c = d at its
\* maximum) among them, the degree is 1 at every point of [b, c] and 0 at
\* every point below a or above d.
C17_TrapezoidPlateauAndOutside ==
    Trapezoidal =>
        \A i \in Grid :
            /\ (shape.abc[2] <= shape.x[i] /\ shape.x[i] <= shape.abc[3])
                    => shape.y[i] = One
            /\ (shape.x[i] < shape.abc[1] \/ shape.x[i] > shape.abc[4])
                    => shape.y[i] = Zero

\* the shoulder term humeda sampled over the universe of soil_moisture: 1 up
\* to the maximum of the universe, 0 below 70
C17_Witness ==
    /\ Trapezoidal
    /\ shape.abc = <<70, 85, 100, 100>>
    /\ At(100) = One
    /\ At(69) = Zero
    /\ RLt(Zero, At(80)) /\ RLt(At(80), One)

\* the value of the case plotted for the variable
ValueOf(v) == plotted_value(degree.input_values, degree.output_value, v)

Inside(v) ==
    /\ RLeq(IntR(define_universes[v].lo), ValueOf(v))
    /\ RLeq(ValueOf(v), IntR(define_universes[v].hi))

\* the piecewise-linear value at x of the triangle (a, b, c) and of the
\* trapezoid (a, b, c, d), x a rational
Triangle(a, b, c, x) ==
    IF x = IntR(b) THEN One
    ELSE IF RLeq(x, IntR(a)) \/ RLeq(IntR(c), x) THEN Zero
    ELSE IF RLt(x, IntR(b)) THEN RDiv(RSub(x, IntR(a)), IntR(b - a))
    ELSE RDiv(RSub(IntR(c), x), IntR(c - b))

Trapezoid(a, b, c, d, x) ==
    IF RLeq(IntR(b), x) /\ RLeq(x, IntR(c)) THEN One
    ELSE IF RLeq(x, IntR(a)) \/ RLeq(IntR(d), x) THEN Zero
    ELSE IF RLt(x, IntR(b)) THEN RDiv(RSub(x, IntR(a)), IntR(b - a))
    ELSE RDiv(RSub(IntR(d), x), IntR(d - c))

ClosedForm(v, term, x) ==
    LET p == define_memberships[v][term]
    IN  IF Len(p) = 3 THEN Triangle(p[1], p[2], p[3], x)
        ELSE Trapezoid(p[1], p[2], p[3], p[4], x)

\* C18: for every term of the three inputs and every value inside the
\* universe, between two samples of the universe or on one, the degree
\* interpolated from the sampled array (by plot_simulation_result, and by
\* the fuzzification of the inputs) is the piecewise-linear value of the
\* term at the value: every control point is a sample of its universe.
C18_DegreeIsClosedForm ==
    degree.plotted =>
        \A v \in VarNames :
            Inside(v) =>
                \A term \in Terms(v) :
                    /\ degree.degrees[v][term] = ClosedForm(v, term, ValueOf(v))
                    /\ interp_membership(v, term, ValueOf(v))
                            = ClosedForm(v, term, ValueOf(v))

\* a radiation that is no multiple of 10, a moisture and a temperature that
\* are no integers: the terms media and seca hold partly
C18_Witness ==
    /\ degree.plotted
    /\ degree.input_values = plot_values(255)
    /\ degree.degrees["solar_radiation"]["media"] = Rat(1, 50)
    /\ degree.degrees["soil_moisture"]["seca"] = Rat(31, 40)

\* C19: for every variable and term, the degree plot_simulation_result
\* reports for a value below the minimum of the universe is the degree at
\* the minimum, and for a value above the maximum the degree at the maximum;
\* so is, for an input, the degree of the value as the system stores it when
\* it is assigned (clipped to the universe).
C19_DegreeClampsAtBounds ==
    degree.plotted =>
        \A v \in VarNames \cup {OutName} : \A term \in Terms(v) :
            /\ RLt(ValueOf(v), IntR(define_universes[v].lo)) =>
                /\ degree.degrees[v][term] = mf(v, term, define_universes[v].lo)
                /\ v \in VarNames =>
                        interp_membership(v, term, clip_to_bounds(v, ValueOf(v)))
                            = mf(v, term, define_universes[v].lo)
            /\ RLt(IntR(define_universes[v].hi), ValueOf(v)) =>
                /\ degree.degrees[v][term] = mf(v, term, define_universes[v].hi)
                /\ v \in VarNames =>
                        interp_membership(v, term, clip_to_bounds(v, ValueOf(v)))
                            = mf(v, term, define_universes[v].hi)

\* values above the three maximums: the shoulder terms at the maximum hold
\* fully, as at the maximum
C19_Witness ==
    /\ degree.plotted
    /\ \A v \in VarNames \cup {OutName} : RLt(IntR(define_universes[v].hi), ValueOf(v))
    /\ degree.degrees["irrigation_duration"]["larga"] = One
    /\ degree.degrees["soil_moisture"]["humeda"] = One
    /\ degree.degrees["temperature"]["caliente"] = One
    /\ degree.degrees["solar_radiation"]["alta"] = One
    /\ degree.degrees["solar_radiation"]["baja"] = Zero

\* the level each term of irrigation_duration is cut at for the arguments of
\* the call
Cuts ==
    compute_rule(rules, 1,
        assign_inputs(NewSystem, last.args[1], last.args[2], last.args[3]).input, NoCuts)

\* the term is a triangle with its peak midway between its feet
SymmetricTriangle(term) ==
    /\ Len(define_memberships[OutName][term]) = 3
    /\ define_memberships[OutName][term][2] - define_memberships[OutName][term][1]
          = define_memberships[OutName][term][3] - define_memberships[OutName][term][2]

\* the aggregate is the whole triangle of the term and zero elsewhere
SingleTriangle(term) ==
    /\ SymmetricTriangle(term)
    /\ Cuts[term] = One
    /\ \A other \in Terms(OutName) \ {term} : Cuts[other] \in {None, Zero}

\* C20: a call whose aggregate is one symmetric triangle with peak m, zero
\* elsewhere, returns m; at (60, 22, 500) only R12 fires, at strength 1, on
\* 'corta' (4, 8, 12), and the call returns 8.
C20_SymmetricTriangleGivesPeak ==
    (Called /\ ArgsInRange) =>
        /\ \A term \in Terms(OutName) :
                SingleTriangle(term) =>
                    /\ last.raised = "none"
                    /\ last.value = IntR(define_memberships[OutName][term][2])
        /\ last.args = <<60, 22, 500>> =>
                /\ define_rules[12].label = "R12"
                /\ define_rules[12].cons = "corta"
                /\ define_memberships[OutName]["corta"] = <<4, 8, 12>>
                /\ Strengths[12] = One
                /\ \A i \in 1 .. (NumRules - 1) : Strengths[i] = Zero
                /\ SingleTriangle("corta")
                /\ last.value = IntR(8)

\* the call at (60, 22, 500) returned, the aggregate being 'corta' alone
C20_Witness ==
    /\ Called
    /\ last.args = <<60, 22, 500>>
    /\ SingleTriangle("corta")
    /\ last.raised = "none"
    /\ system.output = (OutName :> IntR(8))


\* C21 as stated: for every in-range input triple at least one of the twelve
\* rules has a positive firing strength, so a call that passes the range
\* checks never ends in the RuntimeError of a zero-mass aggregate.
C21_EveryInRangeInputFiresARule ==
    (Called /\ ArgsInRange) =>
        /\ ~ZeroMass
        /\ last.raised # "RuntimeError"


Validated == last.op = "validate_input"

\* C22: for every triple, validate_input returns (True, ...) exactly when
\* simulate_irrigation on the same triple does not raise ValueError; when
\* they reject, both name the same variable, the first out of range in the
\* order humedad, temperatura, radiacion.
C22_ValidateAcceptsWhatSimulateAccepts ==
    Validated =>
        /\ last.es_valido <=> last.raised # "ValueError"
        /\ ~last.es_valido =>
            /\ last.mensaje = last.blame
            /\ last.mensaje = FirstOutOfRange

\* humidity and temperature both out of range: both functions name humedad
C22_Witness ==
    /\ Validated
    /\ ~Within("soil_moisture", last.args[1])
    /\ ~Within("temperature", last.args[2])
    /\ ~last.es_valido
    /\ last.raised = "ValueError"
    /\ last.blame = "humedad"


OutputUniverse == define_universes[OutName]

\* C23: every value simulate_irrigation returns lies within the output
\* universe, 0 to 30 minutes; it returns only for in-range arguments.
C23_DurationWithinOutputUniverse ==
    (Called /\ last.raised = "none") =>
        /\ ArgsInRange
        /\ RLeq(IntR(OutputUniverse.lo), last.value)
        /\ RLeq(last.value, IntR(OutputUniverse.hi))

\* a call that returned a duration in the lowest tenth of the universe, from
\* 'muy_corta', the term that starts at the lower bound
C23_Witness ==
    /\ Called
    /\ ArgsInRange
    /\ last.raised = "none"
    /\ RLt(Zero, last.value)
    /\ RLt(last.value, IntR(3))


\* the records the step appended to the logger: all of results after an
\* automatic session start, what follows the earlier records otherwise
Appended ==
    IF logger.session_id = None THEN logger'.results
    ELSE SubSeq(logger'.results, Len(logger.results) + 1, Len(logger'.results))

\* C24 as stated: after execute_simulations the records appended to the
\* logger during the call and the results returned have the same length and
\* the same cases in the same order with equal inputs, one for each sample
\* whose simulation succeeded and none for a sample whose simulation raised.
C24_LoggerAndResultsInStep ==
    [][last'.op = "execute_simulations" =>
        LET ok == SelectSeq(last'.samples, LAMBDA sample : Succeeds(sample))
        IN  /\ Len(Appended) = Len(last'.results)
            /\ Len(last'.results) = Len(ok)
            /\ \A i \in 1 .. Len(last'.results) :
                /\ Appended[i].caso = last'.results[i].nombre
                /\ Appended[i].humedad = last'.results[i].humedad
                /\ Appended[i].temperatura = last'.results[i].temperatura
                /\ Appended[i].radiacion = last'.results[i].radiacion
                /\ last'.results[i].nombre = ok[i].nombre]_vars


\* call i starts a session: a start_session that returned, or a
\* log_simulation that found no session (no call before it) and returned
StartsSession(i) ==
    /\ ~calls[i].raised
    /\ calls[i].call = "start_session" \/ i = 1

\* the most recent session start among the calls, 1 when there is none
LastStart ==
    IF \E i \in 1 .. Len(calls) : StartsSession(i)
    THEN CHOOSE i \in 1 .. Len(calls) :
            StartsSession(i) /\ \A j \in (i + 1) .. Len(calls) : ~StartsSession(j)
    ELSE 1

\* call i put a record in results: a log_simulation, but for one whose
\* automatic session start raised
Logs(i) ==
    /\ calls[i].call = "log_simulation"
    /\ ~(i = 1 /\ calls[i].raised)

\* the records logged since the most recent session start, in call order
RECURSIVE RecordsFrom(_)
RecordsFrom(i) ==
    IF i > Len(calls) THEN <<>>
    ELSE (IF Logs(i) THEN <<calls[i].record>> ELSE <<>>) \o RecordsFrom(i + 1)

\* C25: after any sequence of start_session and log_simulation calls,
\* results holds the records logged since the most recent session start
\* (explicit, or the automatic one of a log_simulation without a session),
\* in call order, the record that triggered an automatic start included;
\* and non-empty results has session_id and csv_file set.
C25_ResultsAreRecordsSinceSessionStart ==
    /\ logger.results = RecordsFrom(LastStart)
    /\ logger.results # <<>> => (logger.session_id # None /\ logger.csv_file # None)
    /\ (Len(calls) = 1 /\ Logs(1)) => logger.results = <<calls[1].record>>

\* a record logged without a session (kept), a session started, a record
\* logged: results holds the last record alone
C25_Witness ==
    /\ Len(calls) = 3
    /\ \A i \in 1 .. 3 : ~calls[i].raised
    /\ calls[1].call = "log_simulation"
    /\ calls[2].call = "start_session"
    /\ calls[3].call = "log_simulation"
    /\ logger.results = <<calls[3].record>>
    /\ logger.session_id = <<"riego_invernadero">>


\* the step ran an option of the menu (or the read of the option) and it
\* raised an Exception
OptionRaised ==
    /\ main.pc = "menu"
    /\ last' # last
    /\ last'.raised \notin {"none", "KeyboardInterrupt"}

\* C26 as stated: the menu loop is left only through option 0 or a
\* KeyboardInterrupt, with logger.save_summary called on the way out on
\* both paths; any other exception raised while an option is handled (an
\* error of a simulation, a failed read of the option) is reported and the
\* loop goes on with the same system and logger.
C26_LoopLeftOnlyAfterSaveSummary ==
    /\ [](main.left # "" =>
            /\ main.left \in {"option_0", "KeyboardInterrupt"}
            /\ main.saved)
    /\ [][OptionRaised =>
            /\ main' = main
            /\ rules' = rules
            /\ logger' = logger]_vars

=============================================================================
